---- MODULE Spec2Model ----
(***************************************************************************)
(* Soccer Calendar Builder: alias clustering of team names                 *)
(* (gui_app.build_alias_clusters), canonical resolution against the        *)
(* selected teams (main.make_canonical_mapper), the row filter of the CLI  *)
(* and the GUI, and timezone inference for calendar events                 *)
(* (calendar_utils).                                                       *)
(*                                                                         *)
(* Python strings are kept as TLA+ strings; whatever the code does with    *)
(* their characters (ordering, lower(), strip(), split(), substring test)  *)
(* is computed on the character sequence Chars(s).                         *)
(***************************************************************************)
EXTENDS Integers, Sequences, FiniteSets, TLC

Range(s) == {s[k] : k \in 1..Len(s)}

(***************************************************************************)
(* Strings                                                                 *)
(***************************************************************************)

\* Code points of the characters the strings here hold (ASCII).
Digits == <<"0", "1", "2", "3", "4", "5", "6", "7", "8", "9">>
UpperCase ==
    <<"A", "B", "C", "D", "E", "F", "G", "H", "I", "J", "K", "L", "M", "N", "O", "P", "Q", "R", "S", "T", "U", "V", "W", "X", "Y", "Z">>
LowerCase ==
    <<"a", "b", "c", "d", "e", "f", "g", "h", "i", "j", "k", "l", "m", "n", "o", "p", "q", "r", "s", "t", "u", "v", "w", "x", "y", "z">>

IndexOf(c, tbl) == CHOOSE n \in 1..Len(tbl) : tbl[n] = c

IsIn(c, tbl) == \E n \in 1..Len(tbl) : tbl[n] = c

CodePoint(c) ==
    CASE c = " " -> 32
      [] c = "-" -> 45
      [] c = "." -> 46
      [] IsIn(c, Digits) -> 47 + IndexOf(c, Digits)
      [] IsIn(c, UpperCase) -> 64 + IndexOf(c, UpperCase)
      [] IsIn(c, LowerCase) -> 96 + IndexOf(c, LowerCase)

\* Every string the model handles, and its characters.
KnownStrings ==
    {"FC Paris Saint-Germain",
     "Paris",
     "Paris 13 Atletico",
     "Paris FC",
     "Paris Saint-Germain",
     "",
     " ",
     "epl",
     "premier",
     "la-liga",
     "laliga",
     "bundesliga",
     "serie-a",
     "ligue-1",
     "ligue",
     "eredivisie",
     "champions",
     "europa",
     "conference",
     "premier-league",
     "champions-league",
     "europa-league",
     "conference-league",
     "Bundesliga",
     "La Liga",
     "Premier League",
     "Serie A",
     "Ligue 1",
     "Eredivisie",
     "Champions League",
     "Europa League",
     "Conference League",
     "La Liga 2025",
     "la-liga-2025-UTC.csv",
     "la-liga-2025-UTC",
     "epl-2025-UTC.csv",
     "epl-2025-UTC",
     "bundesliga-2025-UTC.csv",
     "bundesliga-2025-UTC",
     "serie-a-2025-UTC.csv",
     "serie-a-2025-UTC",
     "ligue-1-2025-UTC.csv",
     "ligue-1-2025-UTC",
     "mls-2025-UTC.csv",
     "mls-2025-UTC",
     "Mls"}

Chars(s) ==
    CASE s = "FC Paris Saint-Germain" -> <<"F", "C", " ", "P", "a", "r", "i", "s", " ", "S", "a", "i", "n", "t", "-", "G", "e", "r", "m", "a", "i", "n">>
      [] s = "Paris" -> <<"P", "a", "r", "i", "s">>
      [] s = "Paris 13 Atletico" -> <<"P", "a", "r", "i", "s", " ", "1", "3", " ", "A", "t", "l", "e", "t", "i", "c", "o">>
      [] s = "Paris FC" -> <<"P", "a", "r", "i", "s", " ", "F", "C">>
      [] s = "Paris Saint-Germain" -> <<"P", "a", "r", "i", "s", " ", "S", "a", "i", "n", "t", "-", "G", "e", "r", "m", "a", "i", "n">>
      [] s = "" -> <<>>
      [] s = " " -> <<" ">>
      [] s = "epl" -> <<"e", "p", "l">>
      [] s = "premier" -> <<"p", "r", "e", "m", "i", "e", "r">>
      [] s = "la-liga" -> <<"l", "a", "-", "l", "i", "g", "a">>
      [] s = "laliga" -> <<"l", "a", "l", "i", "g", "a">>
      [] s = "bundesliga" -> <<"b", "u", "n", "d", "e", "s", "l", "i", "g", "a">>
      [] s = "serie-a" -> <<"s", "e", "r", "i", "e", "-", "a">>
      [] s = "ligue-1" -> <<"l", "i", "g", "u", "e", "-", "1">>
      [] s = "ligue" -> <<"l", "i", "g", "u", "e">>
      [] s = "eredivisie" -> <<"e", "r", "e", "d", "i", "v", "i", "s", "i", "e">>
      [] s = "champions" -> <<"c", "h", "a", "m", "p", "i", "o", "n", "s">>
      [] s = "europa" -> <<"e", "u", "r", "o", "p", "a">>
      [] s = "conference" -> <<"c", "o", "n", "f", "e", "r", "e", "n", "c", "e">>
      [] s = "premier-league" -> <<"p", "r", "e", "m", "i", "e", "r", "-", "l", "e", "a", "g", "u", "e">>
      [] s = "champions-league" -> <<"c", "h", "a", "m", "p", "i", "o", "n", "s", "-", "l", "e", "a", "g", "u", "e">>
      [] s = "europa-league" -> <<"e", "u", "r", "o", "p", "a", "-", "l", "e", "a", "g", "u", "e">>
      [] s = "conference-league" -> <<"c", "o", "n", "f", "e", "r", "e", "n", "c", "e", "-", "l", "e", "a", "g", "u", "e">>
      [] s = "Bundesliga" -> <<"B", "u", "n", "d", "e", "s", "l", "i", "g", "a">>
      [] s = "La Liga" -> <<"L", "a", " ", "L", "i", "g", "a">>
      [] s = "Premier League" -> <<"P", "r", "e", "m", "i", "e", "r", " ", "L", "e", "a", "g", "u", "e">>
      [] s = "Serie A" -> <<"S", "e", "r", "i", "e", " ", "A">>
      [] s = "Ligue 1" -> <<"L", "i", "g", "u", "e", " ", "1">>
      [] s = "Eredivisie" -> <<"E", "r", "e", "d", "i", "v", "i", "s", "i", "e">>
      [] s = "Champions League" -> <<"C", "h", "a", "m", "p", "i", "o", "n", "s", " ", "L", "e", "a", "g", "u", "e">>
      [] s = "Europa League" -> <<"E", "u", "r", "o", "p", "a", " ", "L", "e", "a", "g", "u", "e">>
      [] s = "Conference League" -> <<"C", "o", "n", "f", "e", "r", "e", "n", "c", "e", " ", "L", "e", "a", "g", "u", "e">>
      [] s = "La Liga 2025" -> <<"L", "a", " ", "L", "i", "g", "a", " ", "2", "0", "2", "5">>
      [] s = "la-liga-2025-UTC.csv" -> <<"l", "a", "-", "l", "i", "g", "a", "-", "2", "0", "2", "5", "-", "U", "T", "C", ".", "c", "s", "v">>
      [] s = "la-liga-2025-UTC" -> <<"l", "a", "-", "l", "i", "g", "a", "-", "2", "0", "2", "5", "-", "U", "T", "C">>
      [] s = "epl-2025-UTC.csv" -> <<"e", "p", "l", "-", "2", "0", "2", "5", "-", "U", "T", "C", ".", "c", "s", "v">>
      [] s = "epl-2025-UTC" -> <<"e", "p", "l", "-", "2", "0", "2", "5", "-", "U", "T", "C">>
      [] s = "bundesliga-2025-UTC.csv" -> <<"b", "u", "n", "d", "e", "s", "l", "i", "g", "a", "-", "2", "0", "2", "5", "-", "U", "T", "C", ".", "c", "s", "v">>
      [] s = "bundesliga-2025-UTC" -> <<"b", "u", "n", "d", "e", "s", "l", "i", "g", "a", "-", "2", "0", "2", "5", "-", "U", "T", "C">>
      [] s = "serie-a-2025-UTC.csv" -> <<"s", "e", "r", "i", "e", "-", "a", "-", "2", "0", "2", "5", "-", "U", "T", "C", ".", "c", "s", "v">>
      [] s = "serie-a-2025-UTC" -> <<"s", "e", "r", "i", "e", "-", "a", "-", "2", "0", "2", "5", "-", "U", "T", "C">>
      [] s = "ligue-1-2025-UTC.csv" -> <<"l", "i", "g", "u", "e", "-", "1", "-", "2", "0", "2", "5", "-", "U", "T", "C", ".", "c", "s", "v">>
      [] s = "ligue-1-2025-UTC" -> <<"l", "i", "g", "u", "e", "-", "1", "-", "2", "0", "2", "5", "-", "U", "T", "C">>
      [] s = "mls-2025-UTC.csv" -> <<"m", "l", "s", "-", "2", "0", "2", "5", "-", "U", "T", "C", ".", "c", "s", "v">>
      [] s = "mls-2025-UTC" -> <<"m", "l", "s", "-", "2", "0", "2", "5", "-", "U", "T", "C">>
      [] s = "Mls" -> <<"M", "l", "s">>


\* The string with the given characters (a computed string must be a known one).
Str(cs) == CHOOSE s \in KnownStrings : Chars(s) = cs

\* Python's str < str: lexicographic on code points, a proper prefix first.
RECURSIVE SeqLess(_, _)
SeqLess(x, y) ==
    IF y = <<>> THEN FALSE
    ELSE IF x = <<>> THEN TRUE
    ELSE IF CodePoint(Head(x)) # CodePoint(Head(y))
         THEN CodePoint(Head(x)) < CodePoint(Head(y))
         ELSE SeqLess(Tail(x), Tail(y))

\* The order of the strings that get sorted, worked out once from their characters.
StrOrder ==
    {p \in KnownStrings \X KnownStrings : SeqLess(Chars(p[1]), Chars(p[2]))}

StrLess(a, b) == <<a, b>> \in StrOrder

\* Stable insertion of x into the sorted list s (after the entries not above it).
RECURSIVE Insert(_, _)
Insert(x, s) ==
    IF s = <<>> THEN <<x>>
    ELSE IF StrLess(x, Head(s)) THEN <<x>> \o s
    ELSE <<Head(s)>> \o Insert(x, Tail(s))

\* Mutant of sorted: the list is taken in the order given.
sorted_unsorted(s) == s

\* Python's sorted(list of str).
RECURSIVE sorted(_)
sorted(s) ==
    IF s = <<>> THEN <<>>
    ELSE Insert(s[Len(s)], sorted(SubSeq(s, 1, Len(s) - 1)))

\* Some enumeration of a finite set (a Python set has no order of its own).
RECURSIVE SetToSeq(_)
SetToSeq(S) ==
    IF S = {} THEN <<>>
    ELSE LET x == CHOOSE y \in S : TRUE IN <<x>> \o SetToSeq(S \ {x})

(***************************************************************************)
(* Bounds and inputs                                                       *)
(***************************************************************************)

\* Team names of one league, as they appear in fixture rows.
TeamNames ==
    {"FC Paris Saint-Germain", "Paris", "Paris 13 Atletico", "Paris FC",
     "Paris Saint-Germain"}

\* The names the lists of any order are drawn from.
ListNames == TeamNames \ {"Paris 13 Atletico"}

\* Longest list of names handed to build_alias_clusters (repeats allowed).
MaxLen == 3

\* Most distinct names of a league in the GUI's call, which passes sorted(set(...)).
MaxTeams == 4

\* The slider's lowest value and the default threshold.
SliderMin == 70
DefaultThreshold == 86
Thresholds == {SliderMin, DefaultThreshold}

\* Values the scorer takes: below both thresholds, equal to the lower one (so
\* below the higher), above both.
Scores == {60, 70, 100}

\* Longest list of selected teams handed to make_canonical_mapper.
MaxSelected == 2

\* Most fixture rows of one league file.
MaxRows == 2

\* Most rows of a frame a calendar is built from.
MaxEvents == 2

\* Python's None, and a cell that is not a str (pandas' NaN, a float); neither
\* is ever taken apart into characters.
None == "<None>"
NaN == "<NaN>"

\* Names a resolver is asked about: team names, the empty and the blank string,
\* a cell that is no string.
ResolveInputs == TeamNames \cup {"", " ", NaN}

\* Team names of the fixture rows that are filtered, and the fixtures.
ExportNames == {"Paris", "Paris FC", "Paris Saint-Germain"}
Fixtures ==
    {r \in [home_team : ExportNames, away_team : ExportNames] :
        r.home_team # r.away_team}

RECURSIVE ListsUpTo(_, _)
ListsUpTo(S, n) ==
    IF n = 0 THEN {<<>>}
    ELSE LET shorter == ListsUpTo(S, n - 1)
         IN  shorter \cup {Append(l, x) : l \in {m \in shorter : Len(m) = n - 1}, x \in S}

\* Unordered pairs of distinct strings: the scorer is symmetric.
Pairs(S) == {{a, b} : a \in S, b \in S} \ {{a} : a \in S}

VARIABLES
    threshold,        \* build_alias_clusters / make_canonical_mapper: the threshold
    scores,           \* the scorer: unordered pair of distinct strings -> 0..100
    pc,               \* where the running operation stands
    team_names,       \* build_alias_clusters: the argument
    order,            \* sorted(team_names), the list the loop walks
    idx,              \* position of the loop in order
    canon_list,       \* build_alias_clusters: canon_list
    alias_to_canon,   \* build_alias_clusters: alias_to_canon
    canonical_names,  \* build_alias_clusters: the returned canonical list
    selected_teams,   \* make_canonical_mapper: selected_teams (main: the chosen teams)
    raw_name,         \* _canon: the argument name
    result,           \* _canon: the returned name
    mode,             \* which program filters the rows: "cli" (main) or "gui"
    rows,             \* the fixture rows of the league file, as read
    df,               \* the frame being worked on
    selected_canon,   \* gui_app: selected_canon_global
    filtered,         \* the rows kept for export
    cal_columns,      \* _calendar_from_df: the label columns df has
    cal_df,           \* _calendar_from_df: the rows of df
    comp_col,         \* _calendar_from_df: comp_col
    competition_name, \* _calendar_from_df / _detect_timezone: the argument
    comp_name,        \* _calendar_from_df: comp_name
    tz,               \* the timezone _detect_timezone returned
    events            \* the calendar's events, in row order

clusterVars == <<team_names, order, idx, canon_list, alias_to_canon, canonical_names>>
resolveVars == <<selected_teams, raw_name, result>>
exportVars == <<mode, rows, df, selected_canon, filtered>>
calendarVars == <<cal_columns, cal_df, comp_col, competition_name, comp_name, tz, events>>

vars == <<threshold, scores, pc, clusterVars, resolveVars, exportVars, calendarVars>>

(***************************************************************************)
(* gui_app.build_alias_clusters                                            *)
(***************************************************************************)

EmptyDict == [x \in {} |-> x]

protect_pairs ==
    {<<"Paris FC", "Paris Saint-Germain">>, <<"Paris", "Paris Saint-Germain">>}

\* Mutant of protected: the pair is looked up in one ordering only.
protected_one_ordering(a, b) == <<a, b>> \in protect_pairs

protected(a, b) == <<a, b>> \in protect_pairs \/ <<b, a>> \in protect_pairs

\* rapidfuzz's fuzz.token_set_ratio, the scorer both algorithms pass to
\* extractOne: symmetric, 0..100, and 100 for identical strings with a token.
token_set_ratio(a, b) == IF a = b THEN 100 ELSE scores[{a, b}]

\* rapidfuzz's process.extractOne(query, choices, scorer=fuzz.token_set_ratio):
\* None (here <<>>) without choices, else <<choice, score, index>> of the
\* first choice reaching the highest score.
extractOne(query, choices) ==
    IF choices = <<>> THEN <<>>
    ELSE LET i == CHOOSE k \in 1..Len(choices) :
                    /\ \A j \in 1..Len(choices) :
                          token_set_ratio(query, choices[j]) <= token_set_ratio(query, choices[k])
                    /\ \A j \in 1..(k - 1) :
                          token_set_ratio(query, choices[j]) < token_set_ratio(query, choices[k])
         IN  <<choices[i], token_set_ratio(query, choices[i]), i>>

NewCanonical(st, name) ==
    [canon_list |-> Append(st.canon_list, name),
     alias_to_canon |-> (name :> name) @@ st.alias_to_canon]

\* Mutant of ClusterName: a name is matched against every name seen so far
\* (the keys of alias_to_canon) instead of the canonical entries.
ClusterName_match_seen(st, name, T) ==
    IF st.canon_list = <<>> THEN NewCanonical(st, name)
    ELSE LET best == extractOne(name, SetToSeq(DOMAIN st.alias_to_canon))
         IN  IF best[2] >= T /\ ~protected(name, best[1])
             THEN [st EXCEPT !.alias_to_canon = (name :> best[1]) @@ @]
             ELSE NewCanonical(st, name)

\* Mutant of ClusterName: a merged name is not entered in alias_to_canon.
ClusterName_merge_unrecorded(st, name, T) ==
    IF st.canon_list = <<>> THEN NewCanonical(st, name)
    ELSE LET best == extractOne(name, st.canon_list)
         IN  IF best[2] >= T /\ ~protected(name, best[1])
             THEN st
             ELSE NewCanonical(st, name)

\* Mutant of ClusterName: the threshold test is turned around.
ClusterName_below_threshold(st, name, T) ==
    IF st.canon_list = <<>> THEN NewCanonical(st, name)
    ELSE LET best == extractOne(name, st.canon_list)
         IN  IF best[2] < T /\ ~protected(name, best[1])
             THEN [st EXCEPT !.alias_to_canon = (name :> best[1]) @@ @]
             ELSE NewCanonical(st, name)

\* One pass of the loop body for name, on st = [canon_list, alias_to_canon].
ClusterName(st, name, T) ==
    IF st.canon_list = <<>> THEN NewCanonical(st, name)
    ELSE LET best == extractOne(name, st.canon_list)
         IN  IF best # <<>>
             THEN IF best[2] >= T /\ ~protected(name, best[1])
                  THEN [st EXCEPT !.alias_to_canon = (name :> best[1]) @@ @]
                  ELSE NewCanonical(st, name)
             ELSE NewCanonical(st, name)

DictValues(d) == {d[k] : k \in DOMAIN d}

\* canonical_names = sorted(set(alias_to_canon.values()))
SortedValues(d) == sorted(SetToSeq(DictValues(d)))

RECURSIVE ClusterLoop(_, _, _)
ClusterLoop(st, names, T) ==
    IF names = <<>> THEN st
    ELSE ClusterLoop(ClusterName(st, Head(names), T), Tail(names), T)

\* The whole function: <<canonical_names, alias_to_canon>>.
build_alias_clusters(names, T) ==
    LET st == ClusterLoop([canon_list |-> <<>>, alias_to_canon |-> EmptyDict],
                          sorted(names), T)
    IN  <<SortedValues(st.alias_to_canon), st.alias_to_canon>>

\* The call: the locals are set up and the argument is sorted.
ClusterCall ==
    /\ pc = "call"
    /\ canon_list' = <<>>
    /\ alias_to_canon' = EmptyDict
    /\ order' = sorted(team_names)
    /\ idx' = 1
    /\ pc' = "loop"
    /\ UNCHANGED <<team_names, threshold, scores, canonical_names>>
    /\ UNCHANGED <<resolveVars, exportVars, calendarVars>>

\* One iteration of "for name in sorted(team_names)".
ClusterStep ==
    /\ pc = "loop"
    /\ idx <= Len(order)
    /\ LET st == ClusterName([canon_list |-> canon_list,
                              alias_to_canon |-> alias_to_canon],
                             order[idx], threshold)
       IN  /\ canon_list' = st.canon_list
           /\ alias_to_canon' = st.alias_to_canon
    /\ idx' = idx + 1
    /\ UNCHANGED <<team_names, threshold, scores, pc, order, canonical_names>>
    /\ UNCHANGED <<resolveVars, exportVars, calendarVars>>

\* The loop is over: the canonical list is built and both are returned.
ClusterReturn ==
    /\ pc = "loop"
    /\ idx > Len(order)
    /\ canonical_names' = SortedValues(alias_to_canon)
    /\ pc' = "done"
    /\ UNCHANGED <<team_names, threshold, scores, order, idx, canon_list, alias_to_canon>>
    /\ UNCHANGED <<resolveVars, exportVars, calendarVars>>

(***************************************************************************)
(* main.make_canonical_mapper                                              *)
(***************************************************************************)

\* isinstance(x, str)
IsStr(x) == x # NaN /\ x # None

\* Whitespace, of the characters handled here.
IsSpace(c) == c = " "

RECURSIVE LStrip(_)
LStrip(cs) == IF cs # <<>> /\ IsSpace(Head(cs)) THEN LStrip(Tail(cs)) ELSE cs

RECURSIVE RStrip(_)
RStrip(cs) ==
    IF cs # <<>> /\ IsSpace(cs[Len(cs)]) THEN RStrip(SubSeq(cs, 1, Len(cs) - 1)) ELSE cs

\* str.strip(), on the characters.
Strip(cs) == RStrip(LStrip(cs))

\* Mutant of _canon: the score has to exceed the threshold.
_canon_strict(teams, T, x) ==
    IF teams = <<>> \/ ~IsStr(x) \/ Strip(Chars(x)) = <<>> THEN x
    ELSE LET match == extractOne(x, teams)
         IN  IF match # <<>> /\ match[2] > T THEN match[1] ELSE x

\* _canon(name), the resolver make_canonical_mapper(teams, T) returns.
_canon(teams, T, x) ==
    IF teams = <<>> \/ ~IsStr(x) \/ Strip(Chars(x)) = <<>> THEN x
    ELSE LET match == extractOne(x, teams)
         IN  IF match # <<>>
             THEN IF match[2] >= T THEN match[1] ELSE x
             ELSE x

\* canonicalize(name): the resolver is applied to one name.
CanonCall ==
    /\ pc = "mapper"
    /\ result' = _canon(selected_teams, threshold, raw_name)
    /\ pc' = "resolved"
    /\ UNCHANGED <<threshold, scores, selected_teams, raw_name>>
    /\ UNCHANGED <<clusterVars, exportVars, calendarVars>>

(***************************************************************************)
(* The row filter: main (lines 98-113) and gui_app.apply_canonical         *)
(***************************************************************************)

\* Mutant of RowMask: both teams have to be selected.
RowMask_both(r, V) == r.home_team_canon \in V /\ r.away_team_canon \in V

\* mask = df["home team canon"].isin(V) | df["away team canon"].isin(V), for a row.
RowMask(r, V) == r.home_team_canon \in V \/ r.away_team_canon \in V

\* The canonical columns are written over the names and dropped.
Renamed(r) == [home_team |-> r.home_team_canon, away_team |-> r.away_team_canon]

WithCanon(r, h, a) ==
    [home_team |-> r.home_team, away_team |-> r.away_team,
     home_team_canon |-> h, away_team_canon |-> a]

Filter(s, V) == SelectSeq(s, LAMBDA r : RowMask(r, V))

\* filtered["home team"] = filtered["home team canon"], and away, on every row.
RenameAll(s) == [k \in 1..Len(s) |-> Renamed(s[k])]

\* main: df["home team canon"] = df["home team"].apply(canonicalize), and away.
CliCanonicalize ==
    /\ pc = "cli_rows"
    /\ df' = [k \in 1..Len(df) |->
                WithCanon(df[k], _canon(selected_teams, threshold, df[k].home_team),
                                 _canon(selected_teams, threshold, df[k].away_team))]
    /\ pc' = "cli_canon"
    /\ UNCHANGED <<threshold, scores, mode, rows, selected_canon, filtered>>
    /\ UNCHANGED <<clusterVars, resolveVars, calendarVars>>

\* main: mask and filtered = df[mask].copy().
CliFilter ==
    /\ pc = "cli_canon"
    /\ filtered' = Filter(df, Range(selected_teams))
    /\ pc' = "cli_filtered"
    /\ UNCHANGED <<threshold, scores, mode, rows, df, selected_canon>>
    /\ UNCHANGED <<clusterVars, resolveVars, calendarVars>>

\* main: an empty frame is skipped; else the names are replaced and the frame
\* is handed to export_to_ics.
CliExport ==
    /\ pc = "cli_filtered"
    /\ filtered' = IF filtered = <<>> THEN filtered ELSE RenameAll(filtered)
    /\ pc' = "exported"
    /\ UNCHANGED <<threshold, scores, mode, rows, df, selected_canon>>
    /\ UNCHANGED <<clusterVars, resolveVars, calendarVars>>

\* alias_to_canon.get(x, x)
AliasGet(d, x) == IF x \in DOMAIN d THEN d[x] ELSE x

\* apply_canonical(df, alias_to_canon, selected_canon)
apply_canonical(frame, d, V) ==
    LET canon == [k \in 1..Len(frame) |->
                    WithCanon(frame[k], AliasGet(d, frame[k].home_team),
                                        AliasGet(d, frame[k].away_team))]
        filt == Filter(canon, V)
    IN  IF filt # <<>> THEN RenameAll(filt) ELSE filt

\* gui_app: team_names = sorted(set(df["home team"]) | set(df["away team"])),
\* handed to build_alias_clusters.
GuiTeamNames ==
    /\ pc = "gui_rows"
    /\ team_names' = sorted(SetToSeq({rows[k].home_team : k \in 1..Len(rows)}
                                      \cup {rows[k].away_team : k \in 1..Len(rows)}))
    /\ pc' = "call"
    /\ UNCHANGED <<threshold, scores, order, idx, canon_list, alias_to_canon, canonical_names>>
    /\ UNCHANGED <<resolveVars, exportVars, calendarVars>>

\* gui_app: the teams chosen among this league's canonical names, joined with
\* the ones chosen in the other leagues; an empty choice stops the preview.
GuiSelect ==
    /\ pc = "done"
    /\ mode = "gui"
    /\ \E chosen \in SUBSET Range(canonical_names), others \in SUBSET ExportNames :
          /\ chosen \cup others # {}
          /\ selected_canon' = chosen \cup others
    /\ pc' = "gui_selected"
    /\ UNCHANGED <<threshold, scores, mode, rows, df, filtered>>
    /\ UNCHANGED <<clusterVars, resolveVars, calendarVars>>

\* gui_app: filt = apply_canonical(df.copy(), alias_map, selected_canon_global)
GuiApplyCanonical ==
    /\ pc = "gui_selected"
    /\ filtered' = apply_canonical(df, alias_to_canon, selected_canon)
    /\ pc' = "exported"
    /\ UNCHANGED <<threshold, scores, mode, rows, df, selected_canon>>
    /\ UNCHANGED <<clusterVars, resolveVars, calendarVars>>

(***************************************************************************)
(* gui_app.clean_league_name                                               *)
(***************************************************************************)

LEAGUE_NAME_MAP ==
    [key \in {"bundesliga", "la-liga", "epl", "premier-league", "serie-a", "ligue-1",
              "ligue", "eredivisie", "champions-league", "europa-league",
              "conference-league"} |->
        CASE key = "bundesliga" -> "Bundesliga"
          [] key = "la-liga" -> "La Liga"
          [] key = "epl" -> "Premier League"
          [] key = "premier-league" -> "Premier League"
          [] key = "serie-a" -> "Serie A"
          [] key = "ligue-1" -> "Ligue 1"
          [] key = "ligue" -> "Ligue 1"
          [] key = "eredivisie" -> "Eredivisie"
          [] key = "champions-league" -> "Champions League"
          [] key = "europa-league" -> "Europa League"
          [] key = "conference-league" -> "Conference League"]

IsUpper(c) == IsIn(c, UpperCase)
IsLower(c) == IsIn(c, LowerCase)
IsDigit(c) == IsIn(c, Digits)

LowerChar(c) == IF IsUpper(c) THEN LowerCase[IndexOf(c, UpperCase)] ELSE c
UpperChar(c) == IF IsLower(c) THEN UpperCase[IndexOf(c, LowerCase)] ELSE c

\* str.lower(), on the characters.
Lower(cs) == [k \in 1..Len(cs) |-> LowerChar(cs[k])]

\* str.title(): a letter after a character that is no letter is made upper
\* case, every other letter lower case.
Title(cs) ==
    [k \in 1..Len(cs) |->
        IF k = 1 \/ ~(IsUpper(cs[k - 1]) \/ IsLower(cs[k - 1]))
        THEN UpperChar(cs[k])
        ELSE LowerChar(cs[k])]

\* str.replace(old, new) for single characters.
Replace(cs, old, new) == [k \in 1..Len(cs) |-> IF cs[k] = old THEN new ELSE cs[k]]

\* str.split(sep) for a single character: the pieces between the separators.
RECURSIVE Split(_, _)
Split(cs, sep) ==
    IF \A k \in 1..Len(cs) : cs[k] # sep THEN <<cs>>
    ELSE LET at == CHOOSE k \in 1..Len(cs) :
                      cs[k] = sep /\ \A j \in 1..(k - 1) : cs[j] # sep
         IN  <<SubSeq(cs, 1, at - 1)>> \o Split(SubSeq(cs, at + 1, Len(cs)), sep)

\* sep.join(parts)
RECURSIVE Join(_, _)
Join(parts, sep) ==
    IF parts = <<>> THEN <<>>
    ELSE IF Len(parts) = 1 THEN parts[1]
    ELSE parts[1] \o <<sep>> \o Join(Tail(parts), sep)

\* Path(filename).stem for a plain file name: the name without its last suffix.
Stem(cs) ==
    LET dots == {k \in 2..Len(cs) : cs[k] = "."}
    IN  IF dots = {} \/ cs[Len(cs)] = "." THEN cs
        ELSE SubSeq(cs, 1, (CHOOSE k \in dots : \A j \in dots : j <= k) - 1)

\* The tokens up to the first one holding a digit.
RECURSIVE NamePrefix(_)
NamePrefix(tokens) ==
    IF tokens = <<>> \/ (\E k \in 1..Len(Head(tokens)) : IsDigit(Head(tokens)[k]))
    THEN <<>>
    ELSE <<Head(tokens)>> \o NamePrefix(Tail(tokens))

IsKey(cs) == \E key \in DOMAIN LEAGUE_NAME_MAP : Chars(key) = cs

clean_league_name(filename) ==
    LET stem == Stem(Chars(filename))
        tokens == Split(stem, "-")
        prefix == NamePrefix(tokens)
        candidates ==
            (IF Len(prefix) >= 2 THEN <<Lower(Join(SubSeq(prefix, 1, 2), "-"))>> ELSE <<>>)
            \o (IF prefix # <<>> THEN <<Lower(prefix[1])>> ELSE <<>>)
        fallback ==
            IF prefix # <<>> THEN Title(Replace(prefix[1], "-", " "))
            ELSE Title(Replace(stem, "-", " "))
        hits == {k \in 1..Len(candidates) : IsKey(candidates[k])}
    IN  IF hits # {}
        THEN LEAGUE_NAME_MAP[Str(candidates[CHOOSE k \in hits : \A j \in hits : k <= j])]
        ELSE Str(fallback)

(***************************************************************************)
(* calendar_utils                                                          *)
(***************************************************************************)

\* The table in its order of insertion, which is the order it is searched in.
LEAGUE_TZ_MAP ==
    << <<"epl", "Europe/London">>,
       <<"premier", "Europe/London">>,
       <<"la-liga", "Europe/Madrid">>,
       <<"laliga", "Europe/Madrid">>,
       <<"bundesliga", "Europe/Berlin">>,
       <<"serie-a", "Europe/Rome">>,
       <<"ligue-1", "Europe/Paris">>,
       <<"ligue", "Europe/Paris">>,
       <<"eredivisie", "Europe/Amsterdam">>,
       <<"champions", "Europe/Zurich">>,
       <<"europa", "Europe/Zurich">>,
       <<"conference", "Europe/Zurich">> >>

\* key in comp
Contains(hay, needle) ==
    \E k \in 0..(Len(hay) - Len(needle)) : SubSeq(hay, k + 1, k + Len(needle)) = needle

_detect_timezone(label) ==
    IF label = None \/ label = "" THEN "UTC"
    ELSE LET comp == Lower(Chars(label))
             hits == {k \in 1..Len(LEAGUE_TZ_MAP) : Contains(comp, Chars(LEAGUE_TZ_MAP[k][1]))}
         IN  IF hits # {}
             THEN LEAGUE_TZ_MAP[CHOOSE k \in hits : \A j \in hits : k <= j][2]
             ELSE "UTC"

\* A direct call of _detect_timezone.
DetectCall ==
    /\ pc = "detect"
    /\ tz' = _detect_timezone(competition_name)
    /\ pc' = "detected"
    /\ UNCHANGED <<threshold, scores, cal_columns, cal_df, comp_col, competition_name,
                   comp_name, events>>
    /\ UNCHANGED <<clusterVars, resolveVars, exportVars>>

\* The first of "competition", "league" that is a column of df.
CompCol(columns) ==
    IF "competition" \in columns THEN "competition"
    ELSE IF "league" \in columns THEN "league"
    ELSE None

\* comp_name: the label of the first row, else competition_name, else "".
RepresentativeName(columns, frame, arg) ==
    LET first == IF CompCol(columns) # None /\ frame # <<>> THEN frame[1].label ELSE None
    IN  IF first # None /\ first # "" THEN first
        ELSE IF arg # None /\ arg # "" THEN arg
        ELSE ""

\* _calendar_from_df up to the loop: the label column, the representative
\* name and the timezone inferred from it.
CalendarCall ==
    /\ pc = "cal_call"
    /\ comp_col' = CompCol(cal_columns)
    /\ comp_name' = RepresentativeName(cal_columns, cal_df, competition_name)
    /\ tz' = _detect_timezone(RepresentativeName(cal_columns, cal_df, competition_name))
    /\ events' = <<>>
    /\ pc' = "cal_rows"
    /\ UNCHANGED <<threshold, scores, cal_columns, cal_df, competition_name>>
    /\ UNCHANGED <<clusterVars, resolveVars, exportVars>>

\* The event of a row: a naive date gets the timezone, an aware one keeps its
\* own; the description is the row's label, else competition_name, else none.
RowEvent(row, col, arg, zone) ==
    LET descr == IF col # None THEN row.label
                 ELSE IF arg # None THEN arg
                 ELSE ""
    IN  [home_team |-> row.home_team,
         away_team |-> row.away_team,
         tzinfo |-> IF row.tzinfo = None THEN zone ELSE row.tzinfo,
         description |-> IF descr # "" THEN descr ELSE None]

\* One iteration of "for _, row in df.iterrows()".
CalendarRow ==
    /\ pc = "cal_rows"
    /\ Len(events) < Len(cal_df)
    /\ events' = Append(events, RowEvent(cal_df[Len(events) + 1], comp_col,
                                         competition_name, tz))
    /\ UNCHANGED <<threshold, scores, pc, cal_columns, cal_df, comp_col,
                   competition_name, comp_name, tz>>
    /\ UNCHANGED <<clusterVars, resolveVars, exportVars>>

\* The loop is over and the calendar is returned.
CalendarReturn ==
    /\ pc = "cal_rows"
    /\ Len(events) = Len(cal_df)
    /\ pc' = "cal_done"
    /\ UNCHANGED <<threshold, scores, cal_columns, cal_df, comp_col, competition_name,
                   comp_name, tz, events>>
    /\ UNCHANGED <<clusterVars, resolveVars, exportVars>>

(***************************************************************************)
(* Specifications                                                          *)
(***************************************************************************)

ClusterIdle ==
    /\ team_names = <<>>
    /\ order = <<>>
    /\ idx = 0
    /\ canon_list = <<>>
    /\ alias_to_canon = EmptyDict
    /\ canonical_names = <<>>

ResolveIdle == selected_teams = <<>> /\ raw_name = None /\ result = None

ExportIdle ==
    /\ mode = "none"
    /\ rows = <<>>
    /\ df = <<>>
    /\ selected_canon = {}
    /\ filtered = <<>>

CalendarIdle ==
    /\ cal_columns = {}
    /\ cal_df = <<>>
    /\ comp_col = None
    /\ competition_name = None
    /\ comp_name = None
    /\ tz = None
    /\ events = <<>>

ClusterStart(names) ==
    /\ team_names = names
    /\ threshold \in Thresholds
    /\ scores \in [Pairs(Range(names)) -> Scores]
    /\ pc = "call"
    /\ order = <<>>
    /\ idx = 0
    /\ canon_list = <<>>
    /\ alias_to_canon = EmptyDict
    /\ canonical_names = <<>>
    /\ ResolveIdle /\ ExportIdle /\ CalendarIdle

\* Any list of names, in any order, repeats allowed.
Init == \E names \in ListsUpTo(ListNames, MaxLen) : ClusterStart(names)

\* The GUI's call: team_names = sorted(set(home) | set(away)).
InitGui ==
    \E S \in SUBSET TeamNames :
        /\ Cardinality(S) <= MaxTeams
        /\ ClusterStart(sorted(SetToSeq(S)))

Next == ClusterCall \/ ClusterStep \/ ClusterReturn

Spec == Init /\ [][Next]_vars

SpecGui == InitGui /\ [][Next]_vars

\* A resolver is built for a list of selected teams and asked about one name;
\* the scorer is left open on the pairs it is asked about.
InitResolve ==
    /\ selected_teams \in ListsUpTo(TeamNames, MaxSelected)
    /\ raw_name \in ResolveInputs
    /\ threshold \in Thresholds
    /\ scores \in [IF IsStr(raw_name) /\ Strip(Chars(raw_name)) # <<>>
                    THEN {{raw_name, v} : v \in Range(selected_teams) \ {raw_name}}
                    ELSE {} -> Scores]
    /\ result = None
    /\ pc = "mapper"
    /\ ClusterIdle /\ ExportIdle /\ CalendarIdle

NextResolve == CanonCall

SpecResolve == InitResolve /\ [][NextResolve]_vars

\* main: the rows of one league file, and the teams the user chose, in the
\* order typed; the mapper is built with threshold=86.
InitCli ==
    /\ mode = "cli"
    /\ rows \in ListsUpTo(Fixtures, MaxRows)
    /\ df = rows
    /\ selected_teams \in {l \in ListsUpTo(ExportNames, Cardinality(ExportNames)) :
                              l # <<>> /\ Cardinality(Range(l)) = Len(l)}
    /\ threshold = DefaultThreshold
    /\ scores \in [Pairs(ExportNames) -> Scores]
    /\ selected_canon = {}
    /\ filtered = <<>>
    /\ raw_name = None /\ result = None
    /\ pc = "cli_rows"
    /\ ClusterIdle /\ CalendarIdle

\* gui_app: the rows of one league file and the slider's threshold.
InitGuiExport ==
    /\ mode = "gui"
    /\ rows \in ListsUpTo(Fixtures, MaxRows)
    /\ df = rows
    /\ threshold \in Thresholds
    /\ scores \in [Pairs(ExportNames) -> Scores]
    /\ selected_canon = {}
    /\ filtered = <<>>
    /\ pc = "gui_rows"
    /\ ClusterIdle /\ ResolveIdle /\ CalendarIdle

InitExport == InitCli \/ InitGuiExport

NextExport ==
    \/ CliCanonicalize
    \/ CliFilter
    \/ CliExport
    \/ GuiTeamNames
    \/ ClusterCall
    \/ ClusterStep
    \/ ClusterReturn
    \/ GuiSelect
    \/ GuiApplyCanonical

SpecExport == InitExport /\ [][NextExport]_vars

\* The league files of the data folder.
LeagueFiles ==
    {"la-liga-2025-UTC.csv", "epl-2025-UTC.csv", "bundesliga-2025-UTC.csv",
     "serie-a-2025-UTC.csv", "ligue-1-2025-UTC.csv", "mls-2025-UTC.csv"}

\* The labels the GUI gives the rows of the files (read_and_normalize).
FileLabels == {clean_league_name(f) : f \in LeagueFiles}

\* The labels main gives the files: path.stem.
FileStems == {Str(Stem(Chars(f))) : f \in LeagueFiles}

\* The fixture of the rows a calendar is built from (the names play no part
\* in the timezone).
CalendarRows(labels) ==
    [home_team : {"Paris"}, away_team : {"Paris FC"},
     tzinfo : {None, "America/New_York"}, label : labels]

CalendarStart ==
    /\ comp_col = None
    /\ comp_name = None
    /\ tz = None
    /\ events = <<>>
    /\ threshold = DefaultThreshold
    /\ scores = EmptyDict
    /\ ClusterIdle /\ ResolveIdle /\ ExportIdle

\* A direct call of _detect_timezone with a label, an empty label or None.
InitDetect ==
    /\ competition_name \in FileLabels \cup FileStems \cup {"La Liga 2025", "", None}
    /\ cal_columns = {}
    /\ cal_df = <<>>
    /\ pc = "detect"
    /\ CalendarStart

\* gui_app, the combined calendar: rows of several leagues, each with its
\* label in the "competition" (or "league") column, competition_name=None.
InitCombined ==
    /\ cal_columns \in {{"competition"}, {"league"}, {"competition", "league"}}
    /\ cal_df \in ListsUpTo(CalendarRows(FileLabels), MaxEvents)
    /\ competition_name = None
    /\ pc = "cal_call"
    /\ CalendarStart

\* gui_app, a calendar per league: rows of one label, competition_name=str(comp).
InitPerLeague ==
    /\ cal_columns = {"competition"}
    /\ \E l \in FileLabels :
          /\ cal_df \in ListsUpTo(CalendarRows({l}), MaxEvents) \ {<<>>}
          /\ competition_name = l
    /\ pc = "cal_call"
    /\ CalendarStart

\* main: the rows of one file, which has no label column, with
\* competition_name=path.stem.
InitCliCalendar ==
    /\ cal_columns = {}
    /\ cal_df \in ListsUpTo(CalendarRows({None}), MaxEvents) \ {<<>>}
    /\ competition_name \in FileStems
    /\ pc = "cal_call"
    /\ CalendarStart

InitCalendar == InitDetect \/ InitCombined \/ InitPerLeague \/ InitCliCalendar

NextCalendar == DetectCall \/ CalendarCall \/ CalendarRow \/ CalendarReturn

SpecCalendar == InitCalendar /\ [][NextCalendar]_vars

(***************************************************************************)
(* Claims                                                                  *)
(***************************************************************************)

Returned == pc = "done"

Merged(n) == n \in DOMAIN alias_to_canon /\ alias_to_canon[n] # n

\* C1 (as claimed): build_alias_clusters never returns a map in which both
\* members of a protected pair present in the input have the same canonical
\* name, a third name included.
C1_ProtectedPairsStayApart ==
    Returned =>
        \A p \in protect_pairs :
            (p[1] \in DOMAIN alias_to_canon /\ p[2] \in DOMAIN alias_to_canon)
                => alias_to_canon[p[1]] # alias_to_canon[p[2]]

\* C2 (as claimed): raising the threshold never lowers the number of canonical
\* entries returned for the same names and scorer.
C2_ThresholdMonotone ==
    Returned =>
        \A T2 \in Thresholds :
            T2 >= threshold
                => Len(build_alias_clusters(team_names, T2)[1]) >= Len(canonical_names)

\* C2 (amended): raising the threshold never lowers the number of canonical
\* entries when the input holds at most three distinct names.
C2_ThresholdMonotoneUpToThree ==
    (Returned /\ Cardinality(Range(team_names)) <= 3) =>
        \A T2 \in Thresholds :
            T2 >= threshold
                => Len(build_alias_clusters(team_names, T2)[1]) >= Len(canonical_names)

\* C2 witness: three names, and the higher threshold gives strictly more
\* canonical entries than the run at the lower one returned.
C2_Witness ==
    /\ Returned
    /\ Cardinality(Range(team_names)) = 3
    /\ threshold = SliderMin
    /\ Len(build_alias_clusters(team_names, DefaultThreshold)[1]) > Len(canonical_names)

\* C3: after every step of the loop and at return, every value of
\* alias_to_canon is a key that maps to itself; the returned canonical list is
\* exactly the set of distinct values of the map, each once.
C3_CanonicalFixedPoint ==
    /\ \A n \in DOMAIN alias_to_canon :
          /\ alias_to_canon[n] \in DOMAIN alias_to_canon
          /\ alias_to_canon[alias_to_canon[n]] = alias_to_canon[n]
    /\ Returned =>
          /\ Range(canonical_names) = DictValues(alias_to_canon)
          /\ Len(canonical_names) = Cardinality(DictValues(alias_to_canon))

\* C3 witness: a returned map with a merged name and two canonical entries.
C3_Witness ==
    /\ Returned
    /\ \E n \in DOMAIN alias_to_canon : Merged(n)
    /\ Len(canonical_names) = 2

\* C4: the returned map's keys are exactly the input names, and an empty input
\* returns an empty canonical list and an empty map.
C4_InputTotality ==
    Returned =>
        /\ DOMAIN alias_to_canon = Range(team_names)
        /\ team_names = <<>> => (canonical_names = <<>> /\ alias_to_canon = EmptyDict)

\* C4 witness: a returned map for an input with a repeated name and a merge.
C4_Witness ==
    /\ Returned
    /\ Len(team_names) > Cardinality(Range(team_names))
    /\ \E n \in DOMAIN alias_to_canon : Merged(n)

\* C5: alias_to_canon never maps a member of a protected pair to the other
\* member, in either ordering, at any step and at return.
C5_ProtectedNeverMapped ==
    \A p \in protect_pairs :
        /\ p[1] \in DOMAIN alias_to_canon => alias_to_canon[p[1]] # p[2]
        /\ p[2] \in DOMAIN alias_to_canon => alias_to_canon[p[2]] # p[1]

\* C5 witness: "Paris Saint-Germain" met "Paris" as its best candidate with a
\* score reaching the threshold, and stayed its own canonical name.
C5_Witness ==
    /\ Returned
    /\ Range(team_names) = {"Paris", "Paris Saint-Germain"}
    /\ token_set_ratio("Paris Saint-Germain", "Paris") >= threshold
    /\ alias_to_canon["Paris Saint-Germain"] = "Paris Saint-Germain"

\* C6: the result for a list of names, in whatever order and with whatever
\* repeats, is the result for one fixed enumeration of its set of names, so two
\* lists of the same names give the same canonical list and the same map.
C6_OrderIndependent ==
    Returned =>
        build_alias_clusters(SetToSeq(Range(team_names)), threshold)
            = <<canonical_names, alias_to_canon>>

\* C6 witness: an input out of order with a repeated name, and a merge.
C6_Witness ==
    /\ Returned
    /\ team_names # sorted(team_names)
    /\ Len(team_names) > Cardinality(Range(team_names))
    /\ \E n \in DOMAIN alias_to_canon : Merged(n)

Blank(x) == ~IsStr(x) \/ x \in {"", " "}

TopScore(x, V) ==
    CHOOSE s \in {token_set_ratio(x, V[k]) : k \in 1..Len(V)} :
        \A k \in 1..Len(V) : token_set_ratio(x, V[k]) <= s

FirstTop(x, V) ==
    CHOOSE k \in 1..Len(V) :
        /\ token_set_ratio(x, V[k]) = TopScore(x, V)
        /\ \A j \in 1..(k - 1) : token_set_ratio(x, V[j]) # TopScore(x, V)

\* C7: the resolver returns the first entry of V with the highest score when
\* that score reaches the threshold and the name unchanged otherwise, so always
\* the name or a member of V; with V empty, or the name empty, blank or not a
\* string, it returns the name unchanged.
C7_Resolver ==
    pc = "resolved" =>
        /\ (selected_teams = <<>> \/ Blank(raw_name)) => result = raw_name
        /\ (selected_teams # <<>> /\ ~Blank(raw_name)) =>
              IF TopScore(raw_name, selected_teams) >= threshold
              THEN result = selected_teams[FirstTop(raw_name, selected_teams)]
              ELSE result = raw_name
        /\ result = raw_name \/ result \in Range(selected_teams)

\* C7 witness: two different selected teams tie at a score reaching the
\* threshold for a name that is neither, and the first one is returned.
C7_Witness ==
    /\ pc = "resolved"
    /\ Len(selected_teams) = 2
    /\ selected_teams[1] # selected_teams[2]
    /\ ~Blank(raw_name)
    /\ raw_name \notin Range(selected_teams)
    /\ token_set_ratio(raw_name, selected_teams[1]) = token_set_ratio(raw_name, selected_teams[2])
    /\ token_set_ratio(raw_name, selected_teams[1]) >= threshold
    /\ result = selected_teams[1]

\* The resolution of a name and the selected set, in the program that runs.
Resolved(x) ==
    IF mode = "cli" THEN _canon(selected_teams, threshold, x)
    ELSE AliasGet(alias_to_canon, x)

Selected == IF mode = "cli" THEN Range(selected_teams) ELSE selected_canon

Retained(r) == Resolved(r.home_team) \in Selected \/ Resolved(r.away_team) \in Selected

\* C10: the rows kept for export are exactly the rows whose resolved home name
\* or resolved away name is selected, in their order, carrying the resolved
\* names as home and away.
C10_RowFilter ==
    pc = "exported" =>
        LET kept == SelectSeq(rows, Retained)
        IN  filtered = [k \in 1..Len(kept) |->
                           [home_team |-> Resolved(kept[k].home_team),
                            away_team |-> Resolved(kept[k].away_team)]]

\* C10 witness: of two rows one is kept and one dropped, and the kept row
\* carries a name other than the one it was read with.
C10_Witness ==
    /\ pc = "exported"
    /\ Len(rows) = 2
    /\ Len(filtered) = 1
    /\ filtered[1] \notin Range(rows)

(***************************************************************************)
(* Timezone inference                                                      *)
(***************************************************************************)

\* C8: timezone inference on the label "La Liga 2025" returns Europe/Madrid,
\* and inference on a None label returns UTC.
C8_LaLigaIsMadrid ==
    pc = "detected" =>
        /\ competition_name = "La Liga 2025" => tz = "Europe/Madrid"
        /\ competition_name = None => tz = "UTC"

\* C9: in a calendar built from rows whose competition labels differ, every
\* event with a naive date has the timezone inferred from its own row's
\* label, not the one inferred from another row.
C9_PerRowTimezone ==
    (/\ pc = "cal_done"
     /\ comp_col # None
     /\ \E i, j \in 1..Len(cal_df) : cal_df[i].label # cal_df[j].label) =>
        \A k \in 1..Len(cal_df) :
            cal_df[k].tzinfo = None =>
                events[k].tzinfo = _detect_timezone(cal_df[k].label)

(***************************************************************************)
(* The resolver on its own vocabulary                                      *)
(***************************************************************************)

\* C11: every member of the selected teams resolves to itself: for a name
\* that is an entry of selected_teams the resolver returns that name, also
\* when an entry placed earlier reaches the same maximum score against it.
C11_SelectedResolvesToItself ==
    (pc = "resolved" /\ raw_name \in Range(selected_teams)) => result = raw_name

====
